---- MODULE Spec2Model ----
(***************************************************************************)
(* A model of django_requestlogging/logging_filters.py: the RequestFilter  *)
(* logging filter, which copies information about an HTTP request onto a   *)
(* logging record.                                                         *)
(*                                                                         *)
(* Python objects are TLA+ records.  The field "class" is the object's     *)
(* type tag; every other field is an attribute the object has (for a dict: *)
(* a key it holds).  An attribute the object lacks is a field missing from *)
(* the record's DOMAIN, so getattr(o, n, default), dict.get(k, default)    *)
(* and the AttributeError of a plain o.n are all decided by DOMAIN.        *)
(* The source is Python 2 / Django 1.x code (user.is_anonymous() is        *)
(* called, hashlib.sha1 is given the cookie's str), and is modelled so.    *)
(***************************************************************************)
EXTENDS Integers, FiniteSets, TLC

\* How many times filter() may be called on one record.
MaxCalls == 2

----------------------------------------------------------------------------
(* Python values *)

PyStr(s) == [class |-> "str", v |-> s]
PyInt(n) == [class |-> "int", v |-> n]
PyBool(b) == [class |-> "bool", v |-> b]
None == [class |-> "NoneType"]
EmptyDict == [class |-> "dict"]

\* The placeholder the filter substitutes.
Hyphen == PyStr("-")

\* Python's truth value of an object: None, False, 0 and '' are false,
\* every other object here is true.
Truthy(x) ==
    CASE x["class"] = "NoneType" -> FALSE
      [] x["class"] = "bool" -> x["v"]
      [] x["class"] = "int" -> x["v"] # 0
      [] x["class"] = "str" -> x["v"] # ""
      [] OTHER -> TRUE

\* hasattr(obj, name) / name in dict
HasAttr(obj, name) == name \in DOMAIN obj

\* getattr(obj, name, default), and dict.get(name, default)
getattr(obj, name, default) == IF HasAttr(obj, name) THEN obj[name] ELSE default

\* setattr(obj, name, value): the attribute is created when missing.
SetAttr(obj, name, value) ==
    [n \in DOMAIN obj \cup {name} |-> IF n = name THEN value ELSE obj[n]]

\* hashlib.sha1(s).hexdigest()[:7], tabulated from the real digests of the
\* session ids the model uses.
Sha1Hex7(s) ==
    CASE s = PyStr("abc123") -> PyStr("6367c48")
      [] s = PyStr("-") -> PyStr("3bc15c8")

----------------------------------------------------------------------------
(* The requests the filter is constructed with *)

\* Marks an attribute left out when an object is built; Strip removes it,
\* so no object of the model carries it.
Absent == [class |-> "<absent>"]
Strip(obj) ==
    [n \in {m \in DOMAIN obj : m = "class" \/ obj[m] # Absent} |-> obj[n]]

Organization(id) == Strip([class |-> "Organization", id |-> id])
Org42 == Organization(PyInt(42))

User(anonymous, username, organization) ==
    Strip([class |-> "User", is_anonymous |-> anonymous,
           username |-> username, organization |-> organization])

Users ==
    { Absent, None,
      \* anonymous users, with and without organization data
      User(PyBool(TRUE), PyStr(""), Org42),
      User(PyBool(TRUE), PyStr(""), Absent),
      \* a user object without the is_anonymous check
      User(Absent, PyStr("alice"), Org42),
      \* an authenticated user without a username
      User(PyBool(FALSE), Absent, Org42) }
    \cup
    \* authenticated users: no organization attribute, organization None,
    \* an organization without an id, with id 0, with id 42
    { User(PyBool(FALSE), PyStr("alice"), org) :
        org \in { Absent, None, Organization(Absent),
                  Organization(PyInt(0)), Org42 } }

Cookies(uuid, sessionid) ==
    Strip([class |-> "dict", uuid |-> uuid, sessionid |-> sessionid])

CookieJars ==
    { Absent,
      Cookies(Absent, Absent),
      Cookies(PyStr("u-1"), Absent),
      Cookies(Absent, PyStr("abc123")),
      Cookies(Absent, PyStr("-")),
      Cookies(PyStr("u-1"), PyStr("abc123")) }

MetaKeys ==
    {"REMOTE_ADDR", "HTTP_X_FORWARDED_FOR", "SERVER_PROTOCOL", "HTTP_USER_AGENT"}

FullMeta ==
    [class |-> "dict",
     REMOTE_ADDR |-> PyStr("10.0.0.1"),
     HTTP_X_FORWARDED_FOR |-> PyStr("10.9.9.9"),
     SERVER_PROTOCOL |-> PyStr("HTTP/1.1"),
     HTTP_USER_AGENT |-> PyStr("curl")]

Meta(keys) == [n \in {"class"} \cup keys |-> FullMeta[n]]

Metas ==
    { Absent, Meta({}), Meta(MetaKeys) } \cup { Meta({k}) : k \in MetaKeys }

\* method, path, path_info
Basics ==
    { <<Absent, Absent, Absent>>,
      <<PyStr("POST"), Absent, Absent>>,
      <<Absent, PyStr("/app/login"), Absent>>,
      <<Absent, Absent, PyStr("/login")>>,
      <<PyStr("POST"), PyStr("/app/login"), PyStr("/login")>> }

HttpRequest(basic, user, cookies, meta) ==
    Strip([class |-> "HttpRequest",
           method |-> basic[1], path |-> basic[2], path_info |-> basic[3],
           user |-> user, COOKIES |-> cookies, META |-> meta])

FullBasic == <<PyStr("POST"), PyStr("/app/login"), PyStr("/login")>>
BareBasic == <<Absent, Absent, Absent>>
FullUser == User(PyBool(FALSE), PyStr("alice"), Org42)
FullCookies == Cookies(PyStr("u-1"), PyStr("abc123"))

\* No request (the default of __init__), and requests that differ in one
\* part from the request that has everything or from the one that has
\* nothing.
Requests ==
    {None}
    \cup { HttpRequest(b, FullUser, FullCookies, FullMeta) : b \in Basics }
    \cup { HttpRequest(b, Absent, Absent, Absent) : b \in Basics }
    \cup { HttpRequest(FullBasic, u, FullCookies, FullMeta) : u \in Users }
    \cup { HttpRequest(BareBasic, u, Absent, Absent) : u \in Users }
    \cup { HttpRequest(FullBasic, FullUser, c, FullMeta) : c \in CookieJars }
    \cup { HttpRequest(BareBasic, Absent, c, Absent) : c \in CookieJars }
    \cup { HttpRequest(FullBasic, FullUser, FullCookies, m) : m \in Metas }
    \cup { HttpRequest(BareBasic, Absent, Absent, m) : m \in Metas }

----------------------------------------------------------------------------
(* The logging records *)

OutputFields ==
    {"request_method", "path_info", "username", "org_id", "uuid",
     "session_id", "session_id_hashed", "remote_addr", "remote_xff",
     "server_protocol", "http_user_agent"}

\* A record as the logging module makes it: none of the fields is set.
FreshRecord == [class |-> "LogRecord", msg |-> PyStr("hello")]

\* A record that already carries a value in each of the fields.
StaleRecord ==
    [n \in {"class", "msg"} \cup OutputFields |->
        IF n = "class" THEN "LogRecord"
        ELSE IF n = "msg" THEN PyStr("hello")
        ELSE PyStr("stale")]

Records == {"fresh", "stale"}
Instances == {"f1", "f2"}

----------------------------------------------------------------------------
(* RequestFilter *)

NotConstructed == [class |-> "<not constructed>"]

\* RequestFilter.__init__
RequestFilter(request) == [class |-> "RequestFilter", request |-> request]

\* BasicBlock reading the request's path instead of its path_info.
BasicBlock_ReadsPath(request, record) ==
    LET r1 == SetAttr(record, "request_method", getattr(request, "method", Hyphen))
    IN  SetAttr(r1, "path_info", getattr(request, "path", Hyphen))

\* filter(), lines 88-89
BasicBlock(request, record) ==
    LET r1 == SetAttr(record, "request_method", getattr(request, "method", Hyphen))
    IN  SetAttr(r1, "path_info", getattr(request, "path_info", Hyphen))

\* UserBlock without the is_anonymous() check of line 92 ("if user:").
UserBlock_NoAnonymousCheck(request, record) ==
    LET user == getattr(request, "user", None)
        Raise(rec) == [record |-> rec, raised |-> TRUE]
        Go(rec) == [record |-> rec, raised |-> FALSE]
    IN  IF ~Truthy(user)
        THEN Go(SetAttr(SetAttr(record, "username", Hyphen), "org_id", Hyphen))
        ELSE IF ~HasAttr(user, "username")
        THEN Raise(record)
        ELSE LET r1 == SetAttr(record, "username", user["username"])
             IN  IF ~HasAttr(user, "organization")
                 THEN Raise(r1)
                 ELSE IF ~Truthy(user["organization"])
                 THEN Go(r1)
                 ELSE IF ~HasAttr(user["organization"], "id")
                 THEN Raise(r1)
                 ELSE IF Truthy(user["organization"]["id"])
                 THEN Go(SetAttr(r1, "org_id", user["organization"]["id"]))
                 ELSE Go(r1)

\* filter(), lines 91-98.  A plain attribute access on an object that
\* lacks the attribute raises AttributeError and ends the call with what
\* was assigned so far.
UserBlock(request, record) ==
    LET user == getattr(request, "user", None)
        Raise(rec) == [record |-> rec, raised |-> TRUE]
        Go(rec) == [record |-> rec, raised |-> FALSE]
    IN  IF ~Truthy(user)
        THEN Go(SetAttr(SetAttr(record, "username", Hyphen), "org_id", Hyphen))
        ELSE IF ~HasAttr(user, "is_anonymous")
        THEN Raise(record)
        ELSE IF Truthy(user["is_anonymous"])
        THEN Go(SetAttr(SetAttr(record, "username", Hyphen), "org_id", Hyphen))
        ELSE IF ~HasAttr(user, "username")
        THEN Raise(record)
        ELSE LET r1 == SetAttr(record, "username", user["username"])
             IN  IF ~HasAttr(user, "organization")
                 THEN Raise(r1)
                 ELSE IF ~Truthy(user["organization"])
                 THEN Go(r1)
                 ELSE IF ~HasAttr(user["organization"], "id")
                 THEN Raise(r1)
                 ELSE IF Truthy(user["organization"]["id"])
                 THEN Go(SetAttr(r1, "org_id", user["organization"]["id"]))
                 ELSE Go(r1)

\* filter(), lines 100-101
CookieBlock(request, record) ==
    LET COOKIES == getattr(request, "COOKIES", EmptyDict)
    IN  SetAttr(record, "uuid", getattr(COOKIES, "uuid", Hyphen))

\* SessionBlock without the test of line 104: the session id is hashed
\* whatever it is.
SessionBlock_AlwaysHash(request, record) ==
    LET COOKIES == getattr(request, "COOKIES", EmptyDict)
        r1 == SetAttr(record, "session_id", getattr(COOKIES, "sessionid", Hyphen))
    IN  SetAttr(r1, "session_id_hashed", Sha1Hex7(r1["session_id"]))

\* filter(), lines 103-107
SessionBlock(request, record) ==
    LET COOKIES == getattr(request, "COOKIES", EmptyDict)
        r1 == SetAttr(record, "session_id", getattr(COOKIES, "sessionid", Hyphen))
    IN  IF r1["session_id"] # Hyphen
        THEN SetAttr(r1, "session_id_hashed", Sha1Hex7(r1["session_id"]))
        ELSE SetAttr(r1, "session_id_hashed", Hyphen)

\* filter(), lines 109-113
HeaderBlock(request, record) ==
    LET META == getattr(request, "META", EmptyDict)
        r1 == SetAttr(record, "remote_addr", getattr(META, "REMOTE_ADDR", Hyphen))
        r2 == SetAttr(r1, "remote_xff", getattr(META, "HTTP_X_FORWARDED_FOR", Hyphen))
        r3 == SetAttr(r2, "server_protocol", getattr(META, "SERVER_PROTOCOL", Hyphen))
    IN  SetAttr(r3, "http_user_agent", getattr(META, "HTTP_USER_AGENT", Hyphen))

\* RequestFilter.filter: the record as the call leaves it, and how the
\* call ended ("True": it returned True).
filter(self, record) ==
    LET request == self["request"]
        u == UserBlock(request, BasicBlock(request, record))
    IN  IF u["raised"]
        THEN [record |-> u["record"], result |-> "AttributeError"]
        ELSE [record |->
                HeaderBlock(request,
                    SessionBlock(request, CookieBlock(request, u["record"]))),
              result |-> "True"]

----------------------------------------------------------------------------
(* The state machine *)

VARIABLES
    filters,     \* each RequestFilter instance, or NotConstructed
    records,     \* each logging record
    returned,    \* how the last filter() call on each record ended
    lastFilter,  \* the instance that made that call
    calls        \* the filter() calls made on each record

vars == <<filters, records, returned, lastFilter, calls>>

Init ==
    /\ filters = [i \in Instances |-> NotConstructed]
    /\ records = [r \in Records |-> IF r = "fresh" THEN FreshRecord ELSE StaleRecord]
    /\ returned = [r \in Records |-> "none"]
    /\ lastFilter = [r \in Records |-> "none"]
    /\ calls = [r \in Records |-> 0]

\* RequestFilter(request): instance i is constructed.
Construct(i, request) ==
    /\ filters[i] = NotConstructed
    /\ filters' = [filters EXCEPT ![i] = RequestFilter(request)]
    /\ UNCHANGED <<records, returned, lastFilter, calls>>

\* i.filter(record r)
Filter(i, r) ==
    /\ filters[i] # NotConstructed
    /\ calls[r] < MaxCalls
    /\ LET out == filter(filters[i], records[r])
       IN  /\ records' = [records EXCEPT ![r] = out["record"]]
           /\ returned' = [returned EXCEPT ![r] = out["result"]]
    /\ lastFilter' = [lastFilter EXCEPT ![r] = i]
    /\ calls' = [calls EXCEPT ![r] = @ + 1]
    /\ UNCHANGED filters

Next ==
    \/ \E i \in Instances, request \in Requests : Construct(i, request)
    \/ \E i \in Instances, r \in Records : Filter(i, r)

Spec == Init /\ [][Next]_vars

----------------------------------------------------------------------------
(* The properties *)

\* filter() was called on record r.
Called(r) == lastFilter[r] # "none"

\* The request captured by the instance that last filtered record r.
RequestOf(r) == filters[lastFilter[r]]["request"]
UserOf(r) == getattr(RequestOf(r), "user", None)
CookiesOf(r) == getattr(RequestOf(r), "COOKIES", EmptyDict)
MetaOf(r) == getattr(RequestOf(r), "META", EmptyDict)

\* The user is anonymous: its is_anonymous() answers true.
IsAnonymous(user) ==
    /\ user # None
    /\ HasAttr(user, "is_anonymous")
    /\ Truthy(user["is_anonymous"])

\* The user is present and its is_anonymous() answers false.
IsAuthenticated(user) ==
    /\ user # None
    /\ HasAttr(user, "is_anonymous")
    /\ ~Truthy(user["is_anonymous"])

\* The user is present, not anonymous, has an organization, and that
\* organization has an id.
HasOrgId(user) ==
    /\ IsAuthenticated(user)
    /\ HasAttr(user, "organization")
    /\ user["organization"] # None
    /\ HasAttr(user["organization"], "id")

\* C1: after a call of filter() on a record, each of the eleven output
\* fields is set on the record and is not null.  Stated of the calls that
\* returned True, which the claim covers.
C1_EveryFieldSet ==
    \A r \in Records :
        returned[r] = "True" =>
            \A f \in OutputFields :
                HasAttr(records[r], f) /\ records[r][f] # None

\* C2: after filter(), org_id is request.user.organization.id when the user
\* is present, not anonymous, has an organization and the organization has
\* an id, and is '-' in every other case.  Stated of the calls that
\* returned True, which the claim covers.
C2_OrgId ==
    \A r \in Records :
        returned[r] = "True" =>
            /\ HasAttr(records[r], "org_id")
            /\ records[r]["org_id"] =
                 IF HasOrgId(UserOf(r))
                 THEN UserOf(r)["organization"]["id"]
                 ELSE Hyphen

\* C3: for every request and every record, filter() completes and returns
\* True; it never ends in an error.
C3_ReturnsTrue ==
    \A r \in Records : Called(r) => returned[r] = "True"

\* C4: when the user object lacks the is_anonymous check, a username or an
\* organization attribute, or its organization lacks an id, filter() raises
\* no exception: the call completes and the field whose source is missing
\* is '-'.
C4_MissingAttributeDegrades ==
    \A r \in Records :
        LET user == UserOf(r)
            rec == records[r]
            noAnon == ~HasAttr(user, "is_anonymous")
            noName == ~HasAttr(user, "username")
            noOrg == ~HasAttr(user, "organization")
            noId == /\ ~noOrg
                    /\ user["organization"] # None
                    /\ ~HasAttr(user["organization"], "id")
        IN  (Called(r) /\ user # None /\ (noAnon \/ noName \/ noOrg \/ noId)) =>
                /\ returned[r] # "AttributeError"
                /\ (noName /\ ~IsAnonymous(user)) =>
                       (HasAttr(rec, "username") /\ rec["username"] = Hyphen)
                /\ (noOrg \/ noId) =>
                       (HasAttr(rec, "org_id") /\ rec["org_id"] = Hyphen)

\* C5: after filter(), if the request's user is absent or anonymous then
\* username = '-' and org_id = '-', whatever organization the user object
\* carries and whatever the record held before; if the user is present and
\* not anonymous, username is request.user.username.
C5_Username ==
    \A r \in Records :
        Called(r) =>
            LET user == UserOf(r)
                rec == records[r]
            IN  /\ (user = None \/ IsAnonymous(user)) =>
                       /\ HasAttr(rec, "username") /\ rec["username"] = Hyphen
                       /\ HasAttr(rec, "org_id") /\ rec["org_id"] = Hyphen
                /\ (IsAuthenticated(user) /\ HasAttr(user, "username")) =>
                       /\ HasAttr(rec, "username")
                       /\ rec["username"] = user["username"]

\* C5's case: the record that held other values was filtered for an
\* anonymous user that carries an organization, and the record that held
\* nothing was filtered for an authenticated user.
C5_Witness ==
    /\ Called("stale") /\ Called("fresh")
    /\ IsAnonymous(UserOf("stale"))
    /\ HasAttr(UserOf("stale"), "organization")
    /\ records["stale"]["username"] = Hyphen
    /\ records["stale"]["org_id"] = Hyphen
    /\ IsAuthenticated(UserOf("fresh"))
    /\ HasAttr(UserOf("fresh"), "username")
    /\ records["fresh"]["username"] = PyStr("alice")

\* C6: if the cookies hold a sessionid V then after filter() session_id = V
\* and session_id_hashed = the first 7 hex characters of SHA-1(V), for
\* every V; session_id_hashed is '-' only when no sessionid cookie is
\* present.
C6_SessionId ==
    \A r \in Records :
        Called(r) =>
            LET cookies == CookiesOf(r)
                rec == records[r]
            IN  /\ HasAttr(cookies, "sessionid") =>
                       /\ HasAttr(rec, "session_id")
                       /\ rec["session_id"] = cookies["sessionid"]
                       /\ HasAttr(rec, "session_id_hashed")
                       /\ rec["session_id_hashed"] = Sha1Hex7(cookies["sessionid"])
                /\ (HasAttr(rec, "session_id_hashed")
                      /\ rec["session_id_hashed"] = Hyphen) =>
                       ~HasAttr(cookies, "sessionid")

\* C7: when the filter was constructed with no request, every one of the
\* eleven output fields is '-' after filter(), whatever the record held.
C7_NoRequest ==
    \A r \in Records :
        (Called(r) /\ RequestOf(r) = None) =>
            \A f \in OutputFields :
                HasAttr(records[r], f) /\ records[r][f] = Hyphen

\* C7's case: both the record that held nothing and the record that held
\* other values were filtered by an instance that has no request.
C7_Witness ==
    \A r \in Records :
        /\ Called(r)
        /\ RequestOf(r) = None
        /\ returned[r] = "True"
        /\ records[r]["org_id"] = Hyphen

\* The source of each field that is read with a default.
DefaultingSource(r, f) ==
    CASE f = "request_method" -> getattr(RequestOf(r), "method", Absent)
      [] f = "path_info" -> getattr(RequestOf(r), "path_info", Absent)
      [] f = "uuid" -> getattr(CookiesOf(r), "uuid", Absent)
      [] f = "session_id" -> getattr(CookiesOf(r), "sessionid", Absent)
      [] f = "remote_addr" -> getattr(MetaOf(r), "REMOTE_ADDR", Absent)
      [] f = "remote_xff" -> getattr(MetaOf(r), "HTTP_X_FORWARDED_FOR", Absent)
      [] f = "server_protocol" -> getattr(MetaOf(r), "SERVER_PROTOCOL", Absent)
      [] f = "http_user_agent" -> getattr(MetaOf(r), "HTTP_USER_AGENT", Absent)

\* C8: each of request_method, path_info, uuid, session_id, remote_addr,
\* remote_xff, server_protocol and http_user_agent is '-' after filter()
\* if its own source is absent and the source's value if it is present,
\* whatever the other sources are.
C8_IndependentDefaults ==
    \A r \in Records :
        Called(r) =>
            \A f \in {"request_method", "path_info", "uuid", "session_id",
                      "remote_addr", "remote_xff", "server_protocol",
                      "http_user_agent"} :
                /\ HasAttr(records[r], f)
                /\ records[r][f] =
                     IF DefaultingSource(r, f) = Absent
                     THEN Hyphen
                     ELSE DefaultingSource(r, f)

\* C9 as the specification states it: path_info is the request's path
\* attribute, and is '-' only when the request has no path attribute.
C9_PathInfoFromPath ==
    \A r \in Records :
        Called(r) =>
            LET request == RequestOf(r)
                rec == records[r]
            IN  /\ HasAttr(rec, "path_info")
                /\ HasAttr(request, "path") => rec["path_info"] = request["path"]
                /\ rec["path_info"] = Hyphen => ~HasAttr(request, "path")

\* C9, amended: path_info is the request's path_info attribute, and is '-'
\* only when the request has no path_info attribute (or that attribute is
\* itself '-').
C9_PathInfoFromPathInfo ==
    \A r \in Records :
        Called(r) =>
            LET request == RequestOf(r)
                rec == records[r]
            IN  /\ HasAttr(rec, "path_info")
                /\ HasAttr(request, "path_info") =>
                       rec["path_info"] = request["path_info"]
                /\ rec["path_info"] = Hyphen =>
                       \/ ~HasAttr(request, "path_info")
                       \/ request["path_info"] = Hyphen

\* C9's case: the record that held other values was filtered for a request
\* whose path and path_info differ, and the other record for a request
\* that has a path and no path_info.
C9_Witness ==
    /\ Called("stale") /\ Called("fresh")
    /\ HasAttr(RequestOf("stale"), "path")
    /\ HasAttr(RequestOf("stale"), "path_info")
    /\ RequestOf("stale")["path"] # RequestOf("stale")["path_info"]
    /\ records["stale"]["path_info"] = RequestOf("stale")["path_info"]
    /\ HasAttr(RequestOf("fresh"), "path")
    /\ ~HasAttr(RequestOf("fresh"), "path_info")
    /\ records["fresh"]["path_info"] = Hyphen

\* C10: the eleven output fields after the last filter() call on a record
\* depend only on the request of the instance that made the call: two
\* records last filtered for the same request agree on all eleven fields,
\* whatever they held before.  Stated of the calls that returned True,
\* which the claim covers.
C10_DependsOnRequestOnly ==
    \A r1 \in Records, r2 \in Records :
        (/\ returned[r1] = "True"
         /\ returned[r2] = "True"
         /\ RequestOf(r1) = RequestOf(r2)) =>
            \A f \in OutputFields :
                /\ HasAttr(records[r1], f) <=> HasAttr(records[r2], f)
                /\ HasAttr(records[r1], f) /\ HasAttr(records[r2], f) =>
                       records[r1][f] = records[r2][f]

====
